---- MODULE Spec2Model ----
(***************************************************************************)
(* Breath session timer of cool-waves (src/src/App.tsx, first App          *)
(* component) with its persistence collaborator, the settings page         *)
(* (src/src/components/CenterBreathDisplay.tsx, SettingsPage) and the      *)
(* shared defaults and limits (src/src/data/breathing.ts).                 *)
(*                                                                         *)
(* Every action is one React event handler or timer callback together with *)
(* the effects React runs before the next event: a handler's setState      *)
(* calls, the phase reset effect when `phases` is rebuilt, and the tick     *)
(* effect's cleanup and rescheduling.                                      *)
(*                                                                         *)
(* Units: durations are whole seconds, remaining times are milliseconds,   *)
(* animationSpeed is in tenths (10 stands for 1.0).                        *)
(* A JSON field is a sequence: <<v>> is the number v, <<>> is a field that *)
(* is absent or not a number.                                              *)
(*                                                                         *)
(* Four specifications share the actions: Spec follows the timer over      *)
(* whole sessions from a mounted App; LoadSpec starts at the first render  *)
(* with every shape of stored value; SettingsSpec adds the editing         *)
(* controls of the settings page; FairSpec leaves the App alone and lets   *)
(* its timeouts fire.                                                      *)
(***************************************************************************)
EXTENDS Integers, Sequences, FiniteSets, TLC

VARIABLES
    isRunning,               \* App state
    phaseIndex,
    phaseTimeLeftMs,
    sessionDurationSeconds,
    sessionRemainingMs,
    showSessionComplete,
    showSettings,
    breathingDurations,
    animationSpeed,
    settingsSnapshot,
    timer,                   \* the timeout the tick effect set last, and its closure
    pendingTimeouts,         \* the callbacks window.setTimeout still has to call
    storage,                 \* localStorage["meditationSettings"]
    pageSessionDurationSeconds,  \* SettingsPage state (defaults while unmounted)
    pageBreathing,
    pageAnimationSpeed,
    sessionTicks,            \* history: ticks fired since the session countdown was (re)set
    phaseTicks,              \* history: ticks fired since the current phase was entered
    cycleTicks,              \* history: ticks fired since Inhale was last entered
    lastOp,                  \* history: the handler that made the last step
    lastRead                 \* history: what getItem returned in the last step

vars == <<isRunning, phaseIndex, phaseTimeLeftMs, sessionDurationSeconds,
          sessionRemainingMs, showSessionComplete, showSettings,
          breathingDurations, animationSpeed, settingsSnapshot, timer,
          pendingTimeouts, storage,
          pageSessionDurationSeconds, pageBreathing, pageAnimationSpeed,
          sessionTicks, phaseTicks, cycleTicks, lastOp, lastRead>>

appVars == <<isRunning, phaseIndex, phaseTimeLeftMs, sessionDurationSeconds,
             sessionRemainingMs, showSessionComplete, breathingDurations,
             animationSpeed, settingsSnapshot, timer, pendingTimeouts>>

pageVars == <<pageSessionDurationSeconds, pageBreathing, pageAnimationSpeed>>

historyVars == <<sessionTicks, phaseTicks, cycleTicks>>

----------------------------------------------------------------------------
(* Bounds of the exploration *)

\* Ticks explored per session countdown: sessions of up to MaxTicks / 10
\* seconds run to completion, longer ones are followed for MaxTicks ticks.
MaxTicks == 150

----------------------------------------------------------------------------
(* Constants of the program *)

TickMs == 100

Min(a, b) == IF a < b THEN a ELSE b

Max(a, b) == IF a > b THEN a ELSE b

DEFAULT_SETTINGS ==
    [sessionDurationSeconds |-> 600,
     breathing |-> [inhale |-> 4, hold |-> 4, exhale |-> 4, rest |-> 2],
     animationSpeed |-> 10]

breathingLimits ==
    [inhale |-> [min |-> 1, max |-> 10],
     hold   |-> [min |-> 1, max |-> 10],
     exhale |-> [min |-> 1, max |-> 10],
     rest   |-> [min |-> 0, max |-> 5]]

----------------------------------------------------------------------------
(* Stored values *)

StoredValue(kind, s, i, h, e, r, a) ==
    [kind |-> kind, sessionDurationSeconds |-> s, inhale |-> i, hold |-> h,
     exhale |-> e, rest |-> r, animationSpeed |-> a]

\* getItem returns null: nothing is stored
NoRecord == StoredValue("none", <<>>, <<>>, <<>>, <<>>, <<>>, <<>>)

\* the two values settingsSnapshot takes besides a stored string
NullSnapshot == StoredValue("unset", <<>>, <<>>, <<>>, <<>>, <<>>, <<>>)

DefaultSnapshot == StoredValue("__default__", <<>>, <<>>, <<>>, <<>>, <<>>, <<>>)

\* lastRead after a step that did not call getItem
NotRead == StoredValue("not-read", <<>>, <<>>, <<>>, <<>>, <<>>, <<>>)

\* the JSON text of a settings object whose six fields are numbers
JsonObject(s, b, a) ==
    StoredValue("object", <<s>>, <<b.inhale>>, <<b.hold>>, <<b.exhale>>,
                <<b.rest>>, <<a>>)

typeofNumber(f) == Len(f) = 1

\* The try block throws: JSON.parse on text that is not JSON, or the first
\* property read on a parsed null
ReadThrows(stored) == stored.kind \in {"unparseable", "json-null"}

----------------------------------------------------------------------------
(* The App component *)

App ==
    [isRunning |-> isRunning, phaseIndex |-> phaseIndex,
     phaseTimeLeftMs |-> phaseTimeLeftMs,
     sessionDurationSeconds |-> sessionDurationSeconds,
     sessionRemainingMs |-> sessionRemainingMs,
     showSessionComplete |-> showSessionComplete,
     breathingDurations |-> breathingDurations,
     animationSpeed |-> animationSpeed,
     settingsSnapshot |-> settingsSnapshot]

\* the useState initial values
InitialAppState ==
    [isRunning |-> TRUE, phaseIndex |-> 0,
     phaseTimeLeftMs |-> DEFAULT_SETTINGS.breathing.inhale * 1000,
     sessionDurationSeconds |-> DEFAULT_SETTINGS.sessionDurationSeconds,
     sessionRemainingMs |-> DEFAULT_SETTINGS.sessionDurationSeconds * 1000,
     showSessionComplete |-> FALSE,
     breathingDurations |-> DEFAULT_SETTINGS.breathing,
     animationSpeed |-> DEFAULT_SETTINGS.animationSpeed,
     settingsSnapshot |-> NullSnapshot]

\* phases[i].duration, i = 0..3, as the sequence phases[i + 1]
phases(durations) ==
    <<durations.inhale, durations.hold, durations.exhale, durations.rest>>

\* phases[i].key
phaseKey(i) == <<"inhale", "hold", "exhale", "rest">>[i + 1]

\* the two scales of the wave visual, in hundredths
smallScale == 90

largeScale == 108

phaseScaleTargets ==
    [inhale |-> largeScale, hold |-> largeScale,
     exhale |-> smallScale, rest |-> smallScale]

\* Math.ceil(ms / 1000)
CeilSeconds(ms) == -((-ms) \div 1000)

\* the seconds shown for the current phase
timeLeftSeconds == Max(0, CeilSeconds(phaseTimeLeftMs))

\* the scale handed to the shader on every render
phaseScale == smallScale

\* mutant of clamp: the upper limit is not applied
clampLowerOnly(key, value) == Max(breathingLimits[key].min, value)

\* mutant of clamp: the lower limit is not applied
clampUpperOnly(key, value) == Min(breathingLimits[key].max, value)

clamp(key, value) ==
    Min(breathingLimits[key].max, Max(breathingLimits[key].min, value))

\* mutant of applySettings: applying settings also starts the session
applySettingsStarts(s, settings, snapshot) ==
    [s EXCEPT
        !.sessionDurationSeconds = settings.sessionDurationSeconds,
        !.sessionRemainingMs = settings.sessionDurationSeconds * 1000,
        !.breathingDurations =
            [inhale |-> clamp("inhale", settings.breathing.inhale),
             hold   |-> clamp("hold", settings.breathing.hold),
             exhale |-> clamp("exhale", settings.breathing.exhale),
             rest   |-> clamp("rest", settings.breathing.rest)],
        !.animationSpeed = settings.animationSpeed,
        !.showSessionComplete = FALSE,
        !.isRunning = TRUE,
        !.settingsSnapshot = snapshot]

\* mutant of applySettings: showSessionComplete is left as it is
applySettingsKeepsComplete(s, settings, snapshot) ==
    [s EXCEPT
        !.sessionDurationSeconds = settings.sessionDurationSeconds,
        !.sessionRemainingMs = settings.sessionDurationSeconds * 1000,
        !.breathingDurations =
            [inhale |-> clamp("inhale", settings.breathing.inhale),
             hold   |-> clamp("hold", settings.breathing.hold),
             exhale |-> clamp("exhale", settings.breathing.exhale),
             rest   |-> clamp("rest", settings.breathing.rest)],
        !.animationSpeed = settings.animationSpeed,
        !.settingsSnapshot = snapshot]

\* mutant of applySettings: the stored session length is read as minutes
applySettingsMinutes(s, settings, snapshot) ==
    [s EXCEPT
        !.sessionDurationSeconds = settings.sessionDurationSeconds * 60,
        !.sessionRemainingMs = settings.sessionDurationSeconds * 60 * 1000,
        !.breathingDurations =
            [inhale |-> clamp("inhale", settings.breathing.inhale),
             hold   |-> clamp("hold", settings.breathing.hold),
             exhale |-> clamp("exhale", settings.breathing.exhale),
             rest   |-> clamp("rest", settings.breathing.rest)],
        !.animationSpeed = settings.animationSpeed,
        !.showSessionComplete = FALSE,
        !.settingsSnapshot = snapshot]

applySettings(s, settings, snapshot) ==
    [s EXCEPT
        !.sessionDurationSeconds = settings.sessionDurationSeconds,
        !.sessionRemainingMs = settings.sessionDurationSeconds * 1000,
        !.breathingDurations =
            [inhale |-> clamp("inhale", settings.breathing.inhale),
             hold   |-> clamp("hold", settings.breathing.hold),
             exhale |-> clamp("exhale", settings.breathing.exhale),
             rest   |-> clamp("rest", settings.breathing.rest)],
        !.animationSpeed = settings.animationSpeed,
        !.showSessionComplete = FALSE,
        !.settingsSnapshot = snapshot]

\* the effect on [phases]: runs whenever breathingDurations is a new object
PhaseResetEffect(s) ==
    [s EXCEPT !.phaseIndex = 0,
              !.phaseTimeLeftMs = phases(s.breathingDurations)[1] * 1000]

\* mutant of normalized: the record is taken only when all six fields are
\* numbers, and the defaults are used otherwise
normalizedAllOrNothing(parsed) ==
    IF /\ typeofNumber(parsed.sessionDurationSeconds)
       /\ typeofNumber(parsed.inhale) /\ typeofNumber(parsed.hold)
       /\ typeofNumber(parsed.exhale) /\ typeofNumber(parsed.rest)
       /\ typeofNumber(parsed.animationSpeed)
    THEN [sessionDurationSeconds |-> parsed.sessionDurationSeconds[1],
          breathing |-> [inhale |-> parsed.inhale[1], hold |-> parsed.hold[1],
                         exhale |-> parsed.exhale[1], rest |-> parsed.rest[1]],
          animationSpeed |-> parsed.animationSpeed[1]]
    ELSE DEFAULT_SETTINGS

\* the object readSettings builds from the parsed record, field by field
normalized(parsed) ==
    [sessionDurationSeconds |->
        IF typeofNumber(parsed.sessionDurationSeconds)
        THEN parsed.sessionDurationSeconds[1]
        ELSE DEFAULT_SETTINGS.sessionDurationSeconds,
     breathing |->
        [inhale |-> IF typeofNumber(parsed.inhale) THEN parsed.inhale[1]
                    ELSE DEFAULT_SETTINGS.breathing.inhale,
         hold   |-> IF typeofNumber(parsed.hold) THEN parsed.hold[1]
                    ELSE DEFAULT_SETTINGS.breathing.hold,
         exhale |-> IF typeofNumber(parsed.exhale) THEN parsed.exhale[1]
                    ELSE DEFAULT_SETTINGS.breathing.exhale,
         rest   |-> IF typeofNumber(parsed.rest) THEN parsed.rest[1]
                    ELSE DEFAULT_SETTINGS.breathing.rest],
     animationSpeed |->
        IF typeofNumber(parsed.animationSpeed) THEN parsed.animationSpeed[1]
        ELSE DEFAULT_SETTINGS.animationSpeed]

\* the settings a parsed record ends up as: readSettings builds normalized
\* and applySettings stores it, clamping the durations
Normalize(parsed) ==
    LET s == applySettings(InitialAppState, normalized(parsed), parsed)
    IN  [sessionDurationSeconds |-> s.sessionDurationSeconds,
         breathing |-> s.breathingDurations,
         animationSpeed |-> s.animationSpeed]

\* mutant of readSettings: the stored text is not compared with the snapshot
readSettingsNoSnapshotCheck(s, stored) ==
    IF stored.kind = "none"
    THEN IF s.settingsSnapshot # DefaultSnapshot
         THEN [app |-> PhaseResetEffect(
                          applySettings(s, DEFAULT_SETTINGS, DefaultSnapshot)),
               storage |-> stored, applied |-> TRUE]
         ELSE [app |-> s, storage |-> stored, applied |-> FALSE]
    ELSE IF ReadThrows(stored)
    THEN [app |-> PhaseResetEffect(
                     applySettings(s, DEFAULT_SETTINGS, DefaultSnapshot)),
          storage |-> NoRecord, applied |-> TRUE]
    ELSE [app |-> PhaseResetEffect(
                     applySettings(s, normalized(stored), stored)),
          storage |-> stored, applied |-> TRUE]

\* mutant of readSettings: the catch block applies the defaults but leaves
\* the stored value in place
readSettingsKeepsCorrupt(s, stored) ==
    IF stored.kind = "none"
    THEN IF s.settingsSnapshot # DefaultSnapshot
         THEN [app |-> PhaseResetEffect(
                          applySettings(s, DEFAULT_SETTINGS, DefaultSnapshot)),
               storage |-> stored, applied |-> TRUE]
         ELSE [app |-> s, storage |-> stored, applied |-> FALSE]
    ELSE IF stored = s.settingsSnapshot
    THEN [app |-> s, storage |-> stored, applied |-> FALSE]
    ELSE IF ReadThrows(stored)
    THEN [app |-> PhaseResetEffect(
                     applySettings(s, DEFAULT_SETTINGS, DefaultSnapshot)),
          storage |-> stored, applied |-> TRUE]
    ELSE [app |-> PhaseResetEffect(
                     applySettings(s, normalized(stored), stored)),
          storage |-> stored, applied |-> TRUE]

\* readSettings, and the phase reset effect that follows every applySettings.
\* The result is the App state, what is left in storage, and whether
\* applySettings ran.
readSettings(s, stored) ==
    IF stored.kind = "none"
    THEN IF s.settingsSnapshot # DefaultSnapshot
         THEN [app |-> PhaseResetEffect(
                          applySettings(s, DEFAULT_SETTINGS, DefaultSnapshot)),
               storage |-> stored, applied |-> TRUE]
         ELSE [app |-> s, storage |-> stored, applied |-> FALSE]
    ELSE IF stored = s.settingsSnapshot
    THEN [app |-> s, storage |-> stored, applied |-> FALSE]
    ELSE IF ReadThrows(stored)
    THEN [app |-> PhaseResetEffect(
                     applySettings(s, DEFAULT_SETTINGS, DefaultSnapshot)),
          storage |-> NoRecord, applied |-> TRUE]
    ELSE [app |-> PhaseResetEffect(
                     applySettings(s, normalized(stored), stored)),
          storage |-> stored, applied |-> TRUE]

\* mutant of startSession: the session restarts with the default length
startSessionDefaultLength(s, durationSeconds) ==
    [s EXCEPT !.sessionDurationSeconds = DEFAULT_SETTINGS.sessionDurationSeconds,
              !.sessionRemainingMs =
                  DEFAULT_SETTINGS.sessionDurationSeconds * 1000,
              !.showSessionComplete = FALSE,
              !.isRunning = TRUE,
              !.phaseIndex = 0,
              !.phaseTimeLeftMs = phases(s.breathingDurations)[1] * 1000]

\* mutant of startSession: phase-remaining is not reset
startSessionKeepsPhaseTime(s, durationSeconds) ==
    [s EXCEPT !.sessionDurationSeconds = durationSeconds,
              !.sessionRemainingMs = durationSeconds * 1000,
              !.showSessionComplete = FALSE,
              !.isRunning = TRUE,
              !.phaseIndex = 0]

startSession(s, durationSeconds) ==
    [s EXCEPT !.sessionDurationSeconds = durationSeconds,
              !.sessionRemainingMs = durationSeconds * 1000,
              !.showSessionComplete = FALSE,
              !.isRunning = TRUE,
              !.phaseIndex = 0,
              !.phaseTimeLeftMs = phases(s.breathingDurations)[1] * 1000]

\* mutant of toggleSessionRunning: no early return when the session is over
toggleSessionRunningUnguarded(s) == [s EXCEPT !.isRunning = ~s.isRunning]

toggleSessionRunning(s) ==
    IF s.sessionRemainingMs <= 0 THEN s
    ELSE [s EXCEPT !.isRunning = ~s.isRunning]

\* no callback is pending
NoTimer ==
    [pending |-> FALSE, sessionRemainingMs |-> 0, phaseTimeLeftMs |-> 0,
     phaseIndex |-> 0, phases |-> <<0, 0, 0, 0>>]

\* mutant of ScheduleTimer: a timeout is set whether or not isRunning
ScheduleTimerWhilePaused(s) ==
    [pending |-> TRUE, sessionRemainingMs |-> s.sessionRemainingMs,
     phaseTimeLeftMs |-> s.phaseTimeLeftMs, phaseIndex |-> s.phaseIndex,
     phases |-> phases(s.breathingDurations)]

\* the tick effect: its cleanup clears the pending timeout, and while
\* isRunning it sets a new one whose closure holds this render's values
ScheduleTimer(s) ==
    IF ~s.isRunning THEN NoTimer
    ELSE [pending |-> TRUE, sessionRemainingMs |-> s.sessionRemainingMs,
          phaseTimeLeftMs |-> s.phaseTimeLeftMs, phaseIndex |-> s.phaseIndex,
          phases |-> phases(s.breathingDurations)]

\* mutant of TickCallback: the session ends one tick late (< for <=)
TickCallbackLateCompletion(s, c) ==
    IF c.sessionRemainingMs < TickMs
    THEN [s EXCEPT !.sessionRemainingMs = 0,
                   !.isRunning = FALSE,
                   !.showSessionComplete = TRUE]
    ELSE LET nextIndex == (c.phaseIndex + 1) % Len(c.phases)
         IN  [s EXCEPT
                !.phaseIndex =
                    IF c.phaseTimeLeftMs <= TickMs THEN nextIndex ELSE @,
                !.phaseTimeLeftMs =
                    IF c.phaseTimeLeftMs <= TickMs
                    THEN c.phases[nextIndex + 1] * 1000
                    ELSE @ - TickMs,
                !.sessionRemainingMs = Max(0, @ - TickMs)]

\* mutant of TickCallback: the phase branch runs before the completion check
TickCallbackPhaseFirst(s, c) ==
    LET nextIndex == (c.phaseIndex + 1) % Len(c.phases)
        advanced ==
            [s EXCEPT
                !.phaseIndex =
                    IF c.phaseTimeLeftMs <= TickMs THEN nextIndex ELSE @,
                !.phaseTimeLeftMs =
                    IF c.phaseTimeLeftMs <= TickMs
                    THEN c.phases[nextIndex + 1] * 1000
                    ELSE @ - TickMs]
    IN  IF c.sessionRemainingMs <= TickMs
        THEN [advanced EXCEPT !.sessionRemainingMs = 0,
                              !.isRunning = FALSE,
                              !.showSessionComplete = TRUE]
        ELSE [advanced EXCEPT !.sessionRemainingMs = Max(0, @ - TickMs)]

\* mutant of TickCallback: the index wraps one phase early
TickCallbackShortCycle(s, c) ==
    IF c.sessionRemainingMs <= TickMs
    THEN [s EXCEPT !.sessionRemainingMs = 0,
                   !.isRunning = FALSE,
                   !.showSessionComplete = TRUE]
    ELSE LET nextIndex == (c.phaseIndex + 1) % (Len(c.phases) - 1)
         IN  [s EXCEPT
                !.phaseIndex =
                    IF c.phaseTimeLeftMs <= TickMs THEN nextIndex ELSE @,
                !.phaseTimeLeftMs =
                    IF c.phaseTimeLeftMs <= TickMs
                    THEN c.phases[nextIndex + 1] * 1000
                    ELSE @ - TickMs,
                !.sessionRemainingMs = Max(0, @ - TickMs)]

\* mutant of TickCallback: the phase ends one tick late (< for <=)
TickCallbackLatePhase(s, c) ==
    IF c.sessionRemainingMs <= TickMs
    THEN [s EXCEPT !.sessionRemainingMs = 0,
                   !.isRunning = FALSE,
                   !.showSessionComplete = TRUE]
    ELSE LET nextIndex == (c.phaseIndex + 1) % Len(c.phases)
         IN  [s EXCEPT
                !.phaseIndex =
                    IF c.phaseTimeLeftMs < TickMs THEN nextIndex ELSE @,
                !.phaseTimeLeftMs =
                    IF c.phaseTimeLeftMs < TickMs
                    THEN c.phases[nextIndex + 1] * 1000
                    ELSE @ - TickMs,
                !.sessionRemainingMs = Max(0, @ - TickMs)]

\* mutant of TickCallback: session-remaining is not counted down
TickCallbackNoCountdown(s, c) ==
    IF c.sessionRemainingMs <= TickMs
    THEN [s EXCEPT !.sessionRemainingMs = 0,
                   !.isRunning = FALSE,
                   !.showSessionComplete = TRUE]
    ELSE LET nextIndex == (c.phaseIndex + 1) % Len(c.phases)
         IN  [s EXCEPT
                !.phaseIndex =
                    IF c.phaseTimeLeftMs <= TickMs THEN nextIndex ELSE @,
                !.phaseTimeLeftMs =
                    IF c.phaseTimeLeftMs <= TickMs
                    THEN c.phases[nextIndex + 1] * 1000
                    ELSE @ - TickMs]

\* the setTimeout callback; c is its closure, s the state its updaters see
TickCallback(s, c) ==
    IF c.sessionRemainingMs <= TickMs
    THEN [s EXCEPT !.sessionRemainingMs = 0,
                   !.isRunning = FALSE,
                   !.showSessionComplete = TRUE]
    ELSE LET nextIndex == (c.phaseIndex + 1) % Len(c.phases)
         IN  [s EXCEPT
                !.phaseIndex =
                    IF c.phaseTimeLeftMs <= TickMs THEN nextIndex ELSE @,
                !.phaseTimeLeftMs =
                    IF c.phaseTimeLeftMs <= TickMs
                    THEN c.phases[nextIndex + 1] * 1000
                    ELSE @ - TickMs,
                !.sessionRemainingMs = Max(0, @ - TickMs)]

\* mutant of TickEffectCleanup: the effect returns no cleanup function
TickEffectNoCleanup(pending, handle) == pending

\* the cleanup of the tick effect: clearTimeout on the timeout it set
TickEffectCleanup(pending, handle) == pending \ {handle}

\* the tick effect re-run after a commit: the cleanup of its last run, then
\* a new timeout while isRunning
TickEffect(s, pending, handle) ==
    IF ScheduleTimer(s).pending
    THEN TickEffectCleanup(pending, handle) \cup {ScheduleTimer(s)}
    ELSE TickEffectCleanup(pending, handle)

\* the App state variables and the tick effect's timer after a commit;
\* pending holds the timeouts that are waiting when the commit happens
CommitAfter(s, pending) ==
    /\ isRunning' = s.isRunning
    /\ phaseIndex' = s.phaseIndex
    /\ phaseTimeLeftMs' = s.phaseTimeLeftMs
    /\ sessionDurationSeconds' = s.sessionDurationSeconds
    /\ sessionRemainingMs' = s.sessionRemainingMs
    /\ showSessionComplete' = s.showSessionComplete
    /\ breathingDurations' = s.breathingDurations
    /\ animationSpeed' = s.animationSpeed
    /\ settingsSnapshot' = s.settingsSnapshot
    /\ timer' = ScheduleTimer(s)
    /\ pendingTimeouts' = TickEffect(s, pending, timer)

\* a commit made by an event handler or an effect
Commit(s) == CommitAfter(s, pendingTimeouts)

----------------------------------------------------------------------------
(* The settings page *)

\* the load effect of SettingsPage: each state field takes the stored field
\* when it is a number and keeps its initial (default) value otherwise
LoadedPage(stored) ==
    IF stored.kind = "none" \/ ReadThrows(stored)
    THEN DEFAULT_SETTINGS
    ELSE normalized(stored)

updateBreathing(breathing, key, value) ==
    [breathing EXCEPT
        ![key] = Min(breathingLimits[key].max,
                     Max(breathingLimits[key].min, value))]

----------------------------------------------------------------------------
(* Inputs of the exploration *)

\* records found in storage when the App mounts
ShortRecord ==
    JsonObject(1, [inhale |-> 0, hold |-> 0, exhale |-> 1, rest |-> 0], 10)

CycleRecord ==
    JsonObject(4, [inhale |-> 0, hold |-> 0, exhale |-> 1, rest |-> 0], 10)

InitialStorage == {NoRecord, ShortRecord, CycleRecord}

\* positions the session slider is moved to (its step is 15)
SessionInputs == {15}

\* values the steppers and sliders hand to updateBreathing
BreathingInputs == {<<"rest", 0>>}

----------------------------------------------------------------------------
(* Initial state: the App is mounted, its mount effects have run *)

Init ==
    \E stored \in InitialStorage :
        LET r == readSettings(InitialAppState, stored)
        IN  /\ isRunning = r.app.isRunning
            /\ phaseIndex = r.app.phaseIndex
            /\ phaseTimeLeftMs = r.app.phaseTimeLeftMs
            /\ sessionDurationSeconds = r.app.sessionDurationSeconds
            /\ sessionRemainingMs = r.app.sessionRemainingMs
            /\ showSessionComplete = r.app.showSessionComplete
            /\ breathingDurations = r.app.breathingDurations
            /\ animationSpeed = r.app.animationSpeed
            /\ settingsSnapshot = r.app.settingsSnapshot
            /\ timer = ScheduleTimer(r.app)
            /\ pendingTimeouts = TickEffect(r.app, {}, NoTimer)
            /\ storage = r.storage
            /\ showSettings = FALSE
            /\ pageSessionDurationSeconds = DEFAULT_SETTINGS.sessionDurationSeconds
            /\ pageBreathing = DEFAULT_SETTINGS.breathing
            /\ pageAnimationSpeed = DEFAULT_SETTINGS.animationSpeed
            /\ sessionTicks = 0
            /\ phaseTicks = 0
            /\ cycleTicks = 0
            /\ lastOp = "mount"
            /\ lastRead = stored

----------------------------------------------------------------------------
(* Actions *)

\* mutant of Tick: timeouts fire only while the session screen is shown
TickOnSessionScreenOnly ==
    /\ ~showSettings
    /\ sessionTicks < MaxTicks
    /\ \E c \in pendingTimeouts :
          LET s == TickCallback(App, c)
          IN  /\ CommitAfter(s, pendingTimeouts \ {c})
              /\ phaseTicks' =
                    IF s.phaseIndex # phaseIndex THEN 0 ELSE phaseTicks + 1
              /\ cycleTicks' =
                    IF s.phaseIndex # phaseIndex /\ s.phaseIndex = 0
                    THEN 0 ELSE cycleTicks + 1
    /\ sessionTicks' = sessionTicks + 1
    /\ lastOp' = "tick"
    /\ lastRead' = NotRead
    /\ UNCHANGED <<showSettings, storage, pageVars>>

\* the pending timeout fires
Tick ==
    /\ sessionTicks < MaxTicks
    /\ \E c \in pendingTimeouts :
          LET s == TickCallback(App, c)
          IN  /\ CommitAfter(s, pendingTimeouts \ {c})
              /\ phaseTicks' =
                    IF s.phaseIndex # phaseIndex THEN 0 ELSE phaseTicks + 1
              /\ cycleTicks' =
                    IF s.phaseIndex # phaseIndex /\ s.phaseIndex = 0
                    THEN 0 ELSE cycleTicks + 1
    /\ sessionTicks' = sessionTicks + 1
    /\ lastOp' = "tick"
    /\ lastRead' = NotRead
    /\ UNCHANGED <<showSettings, storage, pageVars>>

\* a tap on the shader canvas
ToggleSessionRunning ==
    /\ ~showSettings
    /\ Commit(toggleSessionRunning(App))
    /\ lastOp' = "toggleSessionRunning"
    /\ lastRead' = NotRead
    /\ UNCHANGED <<showSettings, storage, pageVars, historyVars>>

\* mutant of StartAgain: the button is shown whatever showSessionComplete is
StartAgainAnytime ==
    /\ ~showSettings
    /\ Commit(startSession(App, sessionDurationSeconds))
    /\ sessionTicks' = 0
    /\ phaseTicks' = 0
    /\ cycleTicks' = 0
    /\ lastOp' = "startSession"
    /\ lastRead' = NotRead
    /\ UNCHANGED <<showSettings, storage, pageVars>>

\* "Start again" in the session-complete modal
StartAgain ==
    /\ ~showSettings
    /\ showSessionComplete
    /\ Commit(startSession(App, sessionDurationSeconds))
    /\ sessionTicks' = 0
    /\ phaseTicks' = 0
    /\ cycleTicks' = 0
    /\ lastOp' = "startSession"
    /\ lastRead' = NotRead
    /\ UNCHANGED <<showSettings, storage, pageVars>>

\* the Settings button: SettingsPage mounts and loads the stored record
OpenSettings ==
    /\ ~showSettings
    /\ showSettings' = TRUE
    /\ storage' = IF ReadThrows(storage) THEN NoRecord ELSE storage
    /\ pageSessionDurationSeconds' = LoadedPage(storage).sessionDurationSeconds
    /\ pageBreathing' = LoadedPage(storage).breathing
    /\ pageAnimationSpeed' = LoadedPage(storage).animationSpeed
    /\ lastOp' = "openSettings"
    /\ lastRead' = storage
    /\ UNCHANGED <<appVars, historyVars>>

\* the session duration slider
SetSessionDuration(value) ==
    /\ showSettings
    /\ pageSessionDurationSeconds' = value
    /\ lastOp' = "setSessionDurationSeconds"
    /\ lastRead' = NotRead
    /\ UNCHANGED <<appVars, showSettings, storage, pageBreathing,
                   pageAnimationSpeed, historyVars>>

\* a breathing stepper or slider
UpdateBreathing(key, value) ==
    /\ showSettings
    /\ pageBreathing' = updateBreathing(pageBreathing, key, value)
    /\ lastOp' = "updateBreathing"
    /\ lastRead' = NotRead
    /\ UNCHANGED <<appVars, showSettings, storage, pageSessionDurationSeconds,
                   pageAnimationSpeed, historyVars>>

\* mutant of HandleSaveSettings: the animation speed is left out of the record
HandleSaveSettingsNoSpeed ==
    /\ showSettings
    /\ storage' = [JsonObject(pageSessionDurationSeconds, pageBreathing,
                              pageAnimationSpeed)
                      EXCEPT !.animationSpeed = <<>>]
    /\ lastOp' = "handleSaveSettings"
    /\ lastRead' = NotRead
    /\ UNCHANGED <<appVars, showSettings, pageVars, historyVars>>

\* "Save Settings"
HandleSaveSettings ==
    /\ showSettings
    /\ storage' = JsonObject(pageSessionDurationSeconds, pageBreathing,
                             pageAnimationSpeed)
    /\ lastOp' = "handleSaveSettings"
    /\ lastRead' = NotRead
    /\ UNCHANGED <<appVars, showSettings, pageVars, historyVars>>

\* "Reset to defaults"
HandleResetDefaults ==
    /\ showSettings
    /\ pageSessionDurationSeconds' = DEFAULT_SETTINGS.sessionDurationSeconds
    /\ pageBreathing' = DEFAULT_SETTINGS.breathing
    /\ pageAnimationSpeed' = DEFAULT_SETTINGS.animationSpeed
    /\ storage' = NoRecord
    /\ lastOp' = "handleResetDefaults"
    /\ lastRead' = NotRead
    /\ UNCHANGED <<appVars, showSettings, historyVars>>

\* "Back": SettingsPage unmounts and the settings-close effect reads storage
CloseSettings ==
    /\ showSettings
    /\ showSettings' = FALSE
    /\ LET r == readSettings(App, storage)
       IN  /\ Commit(r.app)
           /\ storage' = r.storage
           /\ sessionTicks' = IF r.applied THEN 0 ELSE sessionTicks
           /\ phaseTicks' = IF r.applied THEN 0 ELSE phaseTicks
           /\ cycleTicks' = IF r.applied THEN 0 ELSE cycleTicks
    /\ pageSessionDurationSeconds' = DEFAULT_SETTINGS.sessionDurationSeconds
    /\ pageBreathing' = DEFAULT_SETTINGS.breathing
    /\ pageAnimationSpeed' = DEFAULT_SETTINGS.animationSpeed
    /\ lastOp' = "closeSettings"
    /\ lastRead' = storage

Next ==
    \/ Tick
    \/ ToggleSessionRunning
    \/ StartAgain
    \/ OpenSettings
    \/ \E value \in SessionInputs : SetSessionDuration(value)
    \/ \E input \in BreathingInputs : UpdateBreathing(input[1], input[2])
    \/ HandleSaveSettings
    \/ HandleResetDefaults
    \/ CloseSettings

Spec == Init /\ [][Next]_vars

----------------------------------------------------------------------------
(* Second specification: the App from its first render, with every shape of
   stored value the reader can meet; the settings page is opened, saved,
   reset and closed without editing, and sessions are short *)

\* at most this many ticks are followed in one session
MaxLoadTicks == 12

\* text that JSON.parse rejects, such as {not json
UnparseableRecord ==
    StoredValue("unparseable", <<>>, <<>>, <<>>, <<>>, <<>>, <<>>)

\* the text null
JsonNullRecord == StoredValue("json-null", <<>>, <<>>, <<>>, <<>>, <<>>, <<>>)

\* JSON that parses to a number, a string, a boolean or an array: every
\* property read on it gives undefined
JsonScalarRecord ==
    StoredValue("json-scalar", <<>>, <<>>, <<>>, <<>>, <<>>, <<>>)

\* the text {}
EmptyObjectRecord == StoredValue("object", <<>>, <<>>, <<>>, <<>>, <<>>, <<>>)

\* objects in which some fields are absent or are not numbers
PartialRecord == StoredValue("object", <<2>>, <<>>, <<7>>, <<>>, <<1>>, <<>>)

ComplementRecord ==
    StoredValue("object", <<>>, <<3>>, <<>>, <<5>>, <<>>, <<5>>)

\* every duration outside its limits
OutOfRangeRecord ==
    JsonObject(1, [inhale |-> 15, hold |-> 0, exhale |-> 12, rest |-> 9], 10)

NegativeSessionRecord == JsonObject(-1, DEFAULT_SETTINGS.breathing, 10)

ValidRecord ==
    JsonObject(1, [inhale |-> 2, hold |-> 1, exhale |-> 2, rest |-> 0], 5)

LoadStorage ==
    {NoRecord, UnparseableRecord, JsonNullRecord, JsonScalarRecord,
     EmptyObjectRecord, PartialRecord, ComplementRecord, OutOfRangeRecord,
     NegativeSessionRecord, ValidRecord}

\* the first render: the useState initial values, no effect has run
FirstRender(stored) ==
    /\ isRunning = InitialAppState.isRunning
    /\ phaseIndex = InitialAppState.phaseIndex
    /\ phaseTimeLeftMs = InitialAppState.phaseTimeLeftMs
    /\ sessionDurationSeconds = InitialAppState.sessionDurationSeconds
    /\ sessionRemainingMs = InitialAppState.sessionRemainingMs
    /\ showSessionComplete = InitialAppState.showSessionComplete
    /\ breathingDurations = InitialAppState.breathingDurations
    /\ animationSpeed = InitialAppState.animationSpeed
    /\ settingsSnapshot = InitialAppState.settingsSnapshot
    /\ timer = NoTimer
    /\ pendingTimeouts = {}
    /\ storage = stored
    /\ showSettings = FALSE
    /\ pageSessionDurationSeconds = DEFAULT_SETTINGS.sessionDurationSeconds
    /\ pageBreathing = DEFAULT_SETTINGS.breathing
    /\ pageAnimationSpeed = DEFAULT_SETTINGS.animationSpeed
    /\ sessionTicks = 0
    /\ phaseTicks = 0
    /\ cycleTicks = 0
    /\ lastOp = "render"
    /\ lastRead = NotRead

LoadInit == \E stored \in LoadStorage : FirstRender(stored)

\* the mount effects: readSettings, then the tick effect
Mount ==
    /\ lastOp = "render"
    /\ LET r == readSettings(App, storage)
       IN  /\ Commit(r.app)
           /\ storage' = r.storage
    /\ lastOp' = "mount"
    /\ lastRead' = storage
    /\ UNCHANGED <<showSettings, pageVars, historyVars>>

Mounted == lastOp # "render"

LoadTick == sessionTicks < MaxLoadTicks /\ Tick

LoadNext ==
    \/ Mount
    \/ Mounted /\ LoadTick
    \/ Mounted /\ ToggleSessionRunning
    \/ Mounted /\ StartAgain
    \/ Mounted /\ OpenSettings
    \/ Mounted /\ HandleSaveSettings
    \/ Mounted /\ HandleResetDefaults
    \/ Mounted /\ CloseSettings

LoadSpec == LoadInit /\ [][LoadNext]_vars

----------------------------------------------------------------------------
(* Third specification: the settings page with its editing controls next to
   pause, resume and restart; the timer is followed for a few ticks only *)

\* at most this many ticks are followed in one session
MaxSettingsTicks == 1

\* durations of the preset patterns, by pattern id
breathPatterns ==
    [box   |-> [inhale |-> 4, hold |-> 4, exhale |-> 4, rest |-> 4],
     p478  |-> [inhale |-> 4, hold |-> 7, exhale |-> 8, rest |-> 2],
     ocean |-> [inhale |-> 5, hold |-> 2, exhale |-> 6, rest |-> 2],
     spark |-> [inhale |-> 3, hold |-> 2, exhale |-> 4, rest |-> 1]]

\* mutant of SelectPreset: the chosen pattern is stored at once
SelectPresetAutoSave(id) ==
    /\ showSettings
    /\ pageBreathing' = breathPatterns[id]
    /\ storage' = JsonObject(pageSessionDurationSeconds, breathPatterns[id],
                             pageAnimationSpeed)
    /\ lastOp' = "setBreathing"
    /\ lastRead' = NotRead
    /\ UNCHANGED <<appVars, showSettings, pageSessionDurationSeconds,
                   pageAnimationSpeed, historyVars>>

\* a preset pattern button
SelectPreset(id) ==
    /\ showSettings
    /\ pageBreathing' = breathPatterns[id]
    /\ lastOp' = "setBreathing"
    /\ lastRead' = NotRead
    /\ UNCHANGED <<appVars, showSettings, storage, pageSessionDurationSeconds,
                   pageAnimationSpeed, historyVars>>

\* the animation speed slider (its step is 0.1)
SetAnimationSpeed(value) ==
    /\ showSettings
    /\ pageAnimationSpeed' = value
    /\ lastOp' = "setAnimationSpeed"
    /\ lastRead' = NotRead
    /\ UNCHANGED <<appVars, showSettings, storage, pageSessionDurationSeconds,
                   pageBreathing, historyVars>>

SettingsStorage == {NoRecord, OutOfRangeRecord, ValidRecord}

PresetInputs == {"spark"}

\* positions of the session slider: its minimum and one step above it
SettingsSessionInputs == {0, 15}

\* a slider position beyond the limit, as a driven input can be
SettingsBreathingInputs == {<<"inhale", 15>>}

SpeedInputs == {5}

SettingsInit == \E stored \in SettingsStorage : FirstRender(stored)

SettingsTick == sessionTicks < MaxSettingsTicks /\ Tick

SettingsNext ==
    \/ Mount
    \/ Mounted /\ SettingsTick
    \/ Mounted /\ ToggleSessionRunning
    \/ Mounted /\ StartAgain
    \/ Mounted /\ OpenSettings
    \/ \E value \in SettingsSessionInputs : SetSessionDuration(value)
    \/ \E input \in SettingsBreathingInputs :
            UpdateBreathing(input[1], input[2])
    \/ \E id \in PresetInputs : SelectPreset(id)
    \/ \E value \in SpeedInputs : SetAnimationSpeed(value)
    \/ HandleSaveSettings
    \/ HandleResetDefaults
    \/ CloseSettings

SettingsSpec == SettingsInit /\ [][SettingsNext]_vars

----------------------------------------------------------------------------
(* Fourth specification: a mounted App that is left alone; the only steps
   are the mount effects and the ticks, and a pending timeout does fire *)

\* records whose sessions end within MaxTicks ticks: session lengths 0, 1,
\* 4 and 10 seconds, with and without a rest
ZeroSessionRecord == JsonObject(0, DEFAULT_SETTINGS.breathing, 10)

TenSecondRecord ==
    JsonObject(10, [inhale |-> 1, hold |-> 1, exhale |-> 1, rest |-> 1], 10)

FairStorage ==
    {ZeroSessionRecord, ShortRecord, CycleRecord, ValidRecord, TenSecondRecord}

FairInit == \E stored \in FairStorage : FirstRender(stored)

FairNext ==
    \/ Mount
    \/ Mounted /\ Tick

FairSpec == FairInit /\ [][FairNext]_vars /\ WF_vars(FairNext)

----------------------------------------------------------------------------
(* Vocabulary of the claims *)

\* duration in seconds of phase i (0 = Inhale .. 3 = Rest) of the pattern in use
PhaseDuration(i) == phases(breathingDurations)[i + 1]

CycleSeconds ==
    breathingDurations.inhale + breathingDurations.hold
        + breathingDurations.exhale + breathingDurations.rest

\* this step is one firing of the tick callback
TickStep == lastOp' = "tick" /\ sessionTicks' = sessionTicks + 1

TimerValues == <<phaseIndex, phaseTimeLeftMs, sessionRemainingMs>>

----------------------------------------------------------------------------
(* C1 *)

\* C1: a phase of duration d >= 1 ends on exactly its (10*d)-th tick, and the
\* first tick of the phase that follows leaves that phase with
\* (its duration * 1000 - 100) ms remaining (no completion on these ticks).
C1_Original ==
    [][ (TickStep /\ ~showSessionComplete') =>
            /\ PhaseDuration(phaseIndex) >= 1 =>
                 (phaseIndex' # phaseIndex
                    <=> phaseTicks + 1 = 10 * PhaseDuration(phaseIndex))
            /\ (phaseTicks = 0 /\ PhaseDuration((phaseIndex + 3) % 4) >= 1) =>
                 /\ phaseIndex' = phaseIndex
                 /\ phaseTimeLeftMs' = PhaseDuration(phaseIndex) * 1000 - TickMs
      ]_vars

----------------------------------------------------------------------------
(* C2 *)

\* C2: a session of S >= 1 seconds stops running and becomes complete on
\* exactly its (10*S)-th tick: never before it, and always on it.
C2_Theorem ==
    sessionDurationSeconds >= 1 =>
        /\ sessionTicks <= 10 * sessionDurationSeconds
        /\ showSessionComplete <=> sessionTicks = 10 * sessionDurationSeconds
        /\ sessionTicks = 10 * sessionDurationSeconds => ~isRunning

C2_Witness ==
    /\ lastOp = "tick"
    /\ sessionDurationSeconds = 1
    /\ sessionTicks = 10
    /\ showSessionComplete
    /\ ~isRunning

----------------------------------------------------------------------------
(* C3 *)

\* C3: from entering Inhale to the next entry into Inhale the timer takes
\* exactly 10 * (inhale + hold + exhale + rest) ticks.
C3_Original ==
    [][ (TickStep /\ phaseIndex = 3 /\ phaseIndex' = 0) =>
            cycleTicks + 1 = 10 * CycleSeconds ]_vars

----------------------------------------------------------------------------
(* C4 *)

\* C4: a phase of duration 0 is passed within the tick that would enter it:
\* between ticks the timer is never in a zero-length phase with nothing
\* remaining.
C4_Original ==
    ~(PhaseDuration(phaseIndex) = 0 /\ phaseTimeLeftMs = 0)

----------------------------------------------------------------------------
(* C5 *)

\* C5: the tick on which the session runs out sets session-remaining to 0,
\* stops the timer, sets session-complete, and leaves the phase index and
\* phase-remaining as they were.
C5_Theorem ==
    [][ (TickStep /\ sessionRemainingMs <= TickMs) =>
            /\ sessionRemainingMs' = 0
            /\ ~isRunning'
            /\ showSessionComplete'
            /\ UNCHANGED <<phaseIndex, phaseTimeLeftMs>> ]_vars

\* the session ended on a tick on which the phase was due to end as well
C5_Witness ==
    /\ lastOp = "tick"
    /\ showSessionComplete
    /\ sessionRemainingMs = 0
    /\ phaseTimeLeftMs = TickMs

----------------------------------------------------------------------------
(* C6 *)

\* C6: a step that starts or ends with the timer not running, and that is
\* neither a settings apply nor a completion or restart, leaves phase index,
\* phase-remaining and session-remaining unchanged: no tick acts while
\* paused, and pause and resume keep the three values.
C6_Theorem ==
    [][ ((~isRunning \/ ~isRunning')
            /\ UNCHANGED <<settingsSnapshot, showSessionComplete>>) =>
            UNCHANGED TimerValues ]_vars

\* paused in the middle of a phase
C6_Witness ==
    /\ lastOp = "toggleSessionRunning"
    /\ ~isRunning
    /\ ~showSessionComplete
    /\ phaseTicks > 0
    /\ sessionRemainingMs > 0

----------------------------------------------------------------------------
(* C7 *)

\* C7 as stated: from SessionComplete every step other than Restart keeps
\* running = false, session-complete = true and session-remaining = 0.
C7_Original ==
    [][ (showSessionComplete /\ lastOp' # "startSession") =>
            (showSessionComplete' /\ ~isRunning' /\ sessionRemainingMs' = 0)
      ]_vars

\* C7 amended: from SessionComplete every step other than Restart and other
\* than a settings-close that applies a changed stored record keeps
\* running = false, session-complete = true and session-remaining = 0; in
\* particular a tap does.
C7_Amended ==
    [][ (showSessionComplete /\ lastOp' # "startSession"
            /\ settingsSnapshot' = settingsSnapshot) =>
            (showSessionComplete' /\ ~isRunning' /\ sessionRemainingMs' = 0)
      ]_vars

\* a tap was made on the completed session
C7_Witness ==
    /\ lastOp = "toggleSessionRunning"
    /\ showSessionComplete

----------------------------------------------------------------------------
(* C8 *)

\* C8: Restart with duration d yields session-remaining = d*1000, phase
\* index 0, phase-remaining = inhale*1000, session-complete = false and
\* running = true.  (d is the sessionDurationSeconds the modal passes.)
C8_Theorem ==
    [][ lastOp' = "startSession" =>
            /\ sessionDurationSeconds' = sessionDurationSeconds
            /\ sessionRemainingMs' = sessionDurationSeconds * 1000
            /\ phaseIndex' = 0
            /\ phaseTimeLeftMs' = breathingDurations.inhale * 1000
            /\ breathingDurations' = breathingDurations
            /\ ~showSessionComplete'
            /\ isRunning' ]_vars

C8_Witness ==
    /\ lastOp = "startSession"
    /\ isRunning
    /\ sessionDurationSeconds = 4
    /\ sessionRemainingMs = 4000
    /\ phaseTimeLeftMs = 1000

----------------------------------------------------------------------------
(* C9 *)

\* C9 as stated: Restart is enabled in every reachable state.
C9_Original == ENABLED StartAgain

\* C9 amended: Restart is enabled exactly in the states where the session is
\* complete and the session screen is shown; a running or paused session
\* offers no Restart.
C9_Amended ==
    (ENABLED StartAgain) <=> (showSessionComplete /\ ~showSettings)

C9_Witness ==
    /\ ENABLED StartAgain
    /\ showSessionComplete
    /\ ~isRunning
    /\ ~showSettings

----------------------------------------------------------------------------
(* C10 *)

\* what the stored record asks for, computed from the record alone
StoredInhale(stored) ==
    IF Len(stored.inhale) = 1
    THEN IF stored.inhale[1] < 1 THEN 1
         ELSE IF stored.inhale[1] > 10 THEN 10 ELSE stored.inhale[1]
    ELSE 4

StoredSession(stored) ==
    IF Len(stored.sessionDurationSeconds) = 1
    THEN stored.sessionDurationSeconds[1]
    ELSE 600

\* C10: closing the settings screen while running, with a stored record that
\* differs from the one last applied, sets phase index 0, phase-remaining to
\* the record's clamped inhale * 1000, and session-remaining to the record's
\* sessionDurationSeconds * 1000.
C10_Theorem ==
    [][ (lastOp' = "closeSettings" /\ isRunning
            /\ settingsSnapshot' # settingsSnapshot) =>
            /\ phaseIndex' = 0
            /\ phaseTimeLeftMs' = StoredInhale(storage') * 1000
            /\ sessionRemainingMs' = StoredSession(storage') * 1000 ]_vars

\* a record saved from the settings screen was applied to a running session
\* that had already advanced
C10_Witness ==
    /\ lastOp = "closeSettings"
    /\ isRunning
    /\ settingsSnapshot = storage
    /\ storage.sessionDurationSeconds = <<15>>
    /\ storage.inhale = <<0>>
    /\ phaseIndex = 0
    /\ phaseTimeLeftMs = 1000
    /\ sessionRemainingMs = 15000

----------------------------------------------------------------------------
(* C11 *)

\* a stored field when it is a number, and d when it is absent or not one
FieldOr(f, d) == IF Len(f) = 1 THEN f[1] ELSE d

Bounded(lo, hi, v) == IF v < lo THEN lo ELSE IF v > hi THEN hi ELSE v

\* this step reads a stored settings object that was not applied before
ReadsObject ==
    /\ lastOp' \in {"mount", "closeSettings"}
    /\ storage.kind = "object"
    /\ storage # settingsSnapshot

\* C11: on load each of the six fields is handled on its own: a field that is
\* absent or not a number takes its default (600; 4, 4, 4, 2; 1.0) and a
\* field that is a number keeps its stored value, which for the durations is
\* then clamped; the settings screen loads its draft the same way, unclamped.
C11_Theorem ==
    [][ /\ ReadsObject =>
            /\ sessionDurationSeconds'
                    = FieldOr(storage.sessionDurationSeconds, 600)
            /\ breathingDurations'.inhale
                    = Bounded(1, 10, FieldOr(storage.inhale, 4))
            /\ breathingDurations'.hold
                    = Bounded(1, 10, FieldOr(storage.hold, 4))
            /\ breathingDurations'.exhale
                    = Bounded(1, 10, FieldOr(storage.exhale, 4))
            /\ breathingDurations'.rest
                    = Bounded(0, 5, FieldOr(storage.rest, 2))
            /\ animationSpeed' = FieldOr(storage.animationSpeed, 10)
        /\ (lastOp' = "openSettings" /\ storage.kind = "object") =>
            /\ pageSessionDurationSeconds'
                    = FieldOr(storage.sessionDurationSeconds, 600)
            /\ pageBreathing'.inhale = FieldOr(storage.inhale, 4)
            /\ pageBreathing'.hold = FieldOr(storage.hold, 4)
            /\ pageBreathing'.exhale = FieldOr(storage.exhale, 4)
            /\ pageBreathing'.rest = FieldOr(storage.rest, 2)
            /\ pageAnimationSpeed' = FieldOr(storage.animationSpeed, 10) ]_vars

\* the App has mounted on a record that has a session length, a hold and a
\* rest but no inhale, no exhale and no animation speed
C11_Witness ==
    /\ lastOp = "mount"
    /\ storage = PartialRecord
    /\ settingsSnapshot = PartialRecord
    /\ sessionDurationSeconds = 2
    /\ breathingDurations = [inhale |-> 4, hold |-> 7, exhale |-> 4, rest |-> 1]
    /\ animationSpeed = 10

----------------------------------------------------------------------------
(* C12 *)

\* C12: whatever the stored record holds, in every reachable state the
\* durations in use are inside their limits: inhale, hold and exhale in
\* 1..10 and rest in 0..5.
C12_Theorem ==
    /\ breathingDurations.inhale \in 1..10
    /\ breathingDurations.hold \in 1..10
    /\ breathingDurations.exhale \in 1..10
    /\ breathingDurations.rest \in 0..5

\* the timer is ticking on a stored record whose four durations were all
\* outside their limits
C12_Witness ==
    /\ lastOp = "tick"
    /\ settingsSnapshot = OutOfRangeRecord
    /\ storage.inhale = <<15>>
    /\ storage.hold = <<0>>
    /\ storage.rest = <<9>>
    /\ breathingDurations =
          [inhale |-> 10, hold |-> 1, exhale |-> 10, rest |-> 5]

----------------------------------------------------------------------------
(* C13 *)

\* C13: every record written by Save Settings has each breathing duration
\* inside its limits, whatever the controls did before and whatever record
\* was in storage when the settings screen opened.
C13_Original ==
    [][ lastOp' = "handleSaveSettings" =>
            /\ storage'.inhale[1] \in 1..10
            /\ storage'.hold[1] \in 1..10
            /\ storage'.exhale[1] \in 1..10
            /\ storage'.rest[1] \in 0..5 ]_vars

----------------------------------------------------------------------------
(* C14 *)

\* C14: the session length taken from any stored record is never negative,
\* so session-remaining is never negative either.
C14_Original == sessionDurationSeconds >= 0 /\ sessionRemainingMs >= 0

----------------------------------------------------------------------------
(* C15 *)

\* the settings in use
AppliedSettings ==
    [sessionDurationSeconds |-> sessionDurationSeconds,
     breathing |-> breathingDurations,
     animationSpeed |-> animationSpeed]

\* C15: normalization (defaulting, then clamping) is idempotent: the settings
\* the App has taken from any stored value are left as they are when they are
\* written out as a record and normalized again.
C15_Theorem ==
    Normalize(JsonObject(sessionDurationSeconds, breathingDurations,
                         animationSpeed)) = AppliedSettings

\* the App has mounted on a record whose four durations all had to be clamped
C15_Witness ==
    /\ lastOp = "mount"
    /\ settingsSnapshot = OutOfRangeRecord
    /\ AppliedSettings.breathing # normalized(settingsSnapshot).breathing
    /\ AppliedSettings = Normalize(settingsSnapshot)

----------------------------------------------------------------------------
(* C16 *)

\* the draft of the settings screen is a valid configuration: a session
\* length and an animation speed the sliders can give, durations inside
\* their limits
ValidDraft ==
    /\ pageSessionDurationSeconds \in 0..600
    /\ pageBreathing.inhale \in 1..10
    /\ pageBreathing.hold \in 1..10
    /\ pageBreathing.exhale \in 1..10
    /\ pageBreathing.rest \in 0..5
    /\ pageAnimationSpeed \in 5..20

\* C16: a valid configuration saved from the settings screen and loaded back
\* at once (the screen is closed) is the configuration the timer then uses.
C16_Theorem ==
    [][ (lastOp = "handleSaveSettings" /\ lastOp' = "closeSettings"
            /\ ValidDraft) =>
            /\ sessionDurationSeconds' = pageSessionDurationSeconds
            /\ breathingDurations' = pageBreathing
            /\ animationSpeed' = pageAnimationSpeed
            /\ sessionRemainingMs' <= pageSessionDurationSeconds * 1000 ]_vars

\* a configuration made with the session slider, a preset and the speed
\* slider has been saved and loaded back
C16_Witness ==
    /\ lastOp = "closeSettings"
    /\ storage = JsonObject(15, breathPatterns.spark, 5)
    /\ settingsSnapshot = storage
    /\ sessionDurationSeconds = 15
    /\ breathingDurations = breathPatterns.spark
    /\ animationSpeed = 5

----------------------------------------------------------------------------
(* C17 *)

\* the defaults as the specification lists them (animation speed in tenths)
DefaultsObject ==
    [sessionDurationSeconds |-> 600,
     breathing |-> [inhale |-> 4, hold |-> 4, exhale |-> 4, rest |-> 2],
     animationSpeed |-> 10]

\* this state follows a read of the stored value by the App
AppHasRead == lastOp \in {"mount", "closeSettings"}

\* C17: when the stored value cannot be parsed as JSON, the load gives
\* exactly the defaults and the stored value is removed; the App goes on
\* running.
C17_Theorem ==
    (AppHasRead /\ lastRead.kind = "unparseable") =>
        /\ AppliedSettings = DefaultsObject
        /\ storage = NoRecord
        /\ settingsSnapshot = DefaultSnapshot
        /\ isRunning
        /\ timer.pending

\* the App has mounted on text that is not JSON
C17_Witness ==
    /\ lastOp = "mount"
    /\ lastRead = UnparseableRecord
    /\ storage = NoRecord
    /\ AppliedSettings = DefaultsObject

----------------------------------------------------------------------------
(* C18 *)

\* C18: when the stored value parses as JSON but is not a settings object (a
\* number, a string, an array, null), the load gives the full defaults and
\* the stored value is removed.
C18_Original ==
    (AppHasRead /\ lastRead.kind \in {"json-null", "json-scalar"}) =>
        /\ AppliedSettings = DefaultsObject
        /\ storage = NoRecord

----------------------------------------------------------------------------
(* C19 *)

\* C19: in every reachable state the visual scale is the one the phase asks
\* for: expanded (largeScale) during Inhale and Hold, contracted (smallScale)
\* during Exhale and Rest.
C19_Original == phaseScale = phaseScaleTargets[phaseKey(phaseIndex)]

----------------------------------------------------------------------------
(* C20 *)

\* C20: the phase index is always in 0..3, and every step either leaves it
\* alone, moves it to (index + 1) mod 4 by a tick, or sets it to 0 by a
\* restart or by applying settings.
C20_Theorem ==
    /\ phaseIndex \in 0..3
    /\ [][ /\ phaseIndex' \in 0..3
           /\ \/ phaseIndex' = phaseIndex
              \/ lastOp' = "tick" /\ phaseIndex' = (phaseIndex + 1) % 4
              \/ lastOp' \in {"startSession", "closeSettings"}
                    /\ phaseIndex' = 0 ]_vars

\* a tick has just taken the timer from Rest back to Inhale
C20_Witness ==
    /\ lastOp = "tick"
    /\ phaseIndex = 0
    /\ phaseTicks = 0
    /\ sessionTicks > 0
    /\ cycleTicks = 0

----------------------------------------------------------------------------
(* C21 *)

\* C21: at most one tick callback is pending, none is pending while the
\* session is not running, and a pending callback holds the phase and
\* session values of the current state: whatever a pause, a restart or a
\* settings apply changed, the callback set before it was cancelled.
C21_Theorem ==
    /\ Cardinality(pendingTimeouts) <= 1
    /\ ~isRunning => pendingTimeouts = {}
    /\ \A c \in pendingTimeouts :
          /\ c.phaseIndex = phaseIndex
          /\ c.phaseTimeLeftMs = phaseTimeLeftMs
          /\ c.sessionRemainingMs = sessionRemainingMs
          /\ c.phases = phases(breathingDurations)

\* a tap has paused a session that had ticked: the callback that was waiting
\* is gone
C21_Witness ==
    /\ lastOp = "toggleSessionRunning"
    /\ ~isRunning
    /\ sessionTicks > 0
    /\ sessionRemainingMs > 0
    /\ pendingTimeouts = {}

----------------------------------------------------------------------------
(* C22 *)

\* C22: the durations and the session length the timer counts with change
\* only in a step that applies settings, at mount or when the settings
\* screen closes; a tick, a pause, a resume and a restart leave them as
\* they are.
C22_Theorem ==
    [][ (breathingDurations' # breathingDurations
            \/ sessionDurationSeconds' # sessionDurationSeconds) =>
            lastOp' \in {"mount", "closeSettings"} ]_vars

\* a session counted with a stored record has ended and was started again
C22_Witness ==
    /\ lastOp = "startSession"
    /\ settingsSnapshot = ValidRecord
    /\ sessionDurationSeconds = 1
    /\ breathingDurations = [inhale |-> 2, hold |-> 1, exhale |-> 2, rest |-> 0]
    /\ sessionRemainingMs = 1000

----------------------------------------------------------------------------
(* C23 *)

\* C23: a record is put in storage only by Save Settings; the sliders and
\* steppers, the presets, closing the settings screen, a tick, a pause or
\* resume and a restart leave a well-formed stored record as it is.
C23_Theorem ==
    [][ /\ (storage' # storage /\ storage' # NoRecord) =>
                lastOp' = "handleSaveSettings"
        /\ (storage.kind = "object"
              /\ lastOp' \in {"setSessionDurationSeconds", "updateBreathing",
                              "setBreathing", "setAnimationSpeed",
                              "closeSettings", "tick",
                              "toggleSessionRunning", "startSession"}) =>
                storage' = storage ]_vars

\* a preset has been chosen in the settings screen and the stored record
\* still holds the pattern it had
C23_Witness ==
    /\ lastOp = "setBreathing"
    /\ storage = ValidRecord
    /\ pageBreathing = breathPatterns.spark
    /\ <<pageBreathing.inhale>> # storage.inhale

----------------------------------------------------------------------------
(* C24 *)

\* C24: in every reachable state, session-complete implies that the session
\* is not running and that session-remaining is 0.
C24_Theorem ==
    showSessionComplete => (~isRunning /\ sessionRemainingMs = 0)

\* the session is complete and a tap on the canvas has left it so
C24_Witness ==
    /\ lastOp = "toggleSessionRunning"
    /\ showSessionComplete
    /\ ~isRunning
    /\ sessionRemainingMs = 0
    /\ pendingTimeouts = {}

----------------------------------------------------------------------------
(* C25 *)

\* C25: the timer is never left stopped with nothing to restart it: whenever
\* the session is not running, either it is complete (Start again is
\* offered) or session-remaining is above 0 (a tap resumes it).
C25_Original ==
    ~isRunning => (showSessionComplete \/ sessionRemainingMs > 0)

----------------------------------------------------------------------------
(* C26 *)

\* C26: a running session that is left alone, its ticks firing, eventually
\* reaches SessionComplete (not running, session-complete set), for every
\* accepted pattern, rest = 0 included, and every session length >= 0.
C26_Theorem ==
    (isRunning /\ Mounted) ~> (showSessionComplete /\ ~isRunning)

\* a 4 second session on a pattern without rest has been ended by its
\* 40th tick
C26_Witness ==
    /\ lastOp = "tick"
    /\ showSessionComplete
    /\ ~isRunning
    /\ breathingDurations.rest = 0
    /\ sessionDurationSeconds = 4
    /\ sessionTicks = 40

----------------------------------------------------------------------------
(* C27 *)

\* C27: closing the settings screen when the stored record is the one last
\* applied, or when storage is empty and the defaults were last applied,
\* leaves phase index, phase-remaining, session-remaining, running and
\* session-complete as they are.
C27_Theorem ==
    [][ (lastOp' = "closeSettings"
            /\ \/ storage = settingsSnapshot
               \/ storage = NoRecord /\ settingsSnapshot = DefaultSnapshot) =>
            UNCHANGED <<phaseIndex, phaseTimeLeftMs, sessionRemainingMs,
                        isRunning, showSessionComplete>> ]_vars

\* the settings screen has been closed on the record in use while the timer
\* was past its first phase: the timer is where it was
C27_Witness ==
    /\ lastOp = "closeSettings"
    /\ storage = settingsSnapshot
    /\ isRunning
    /\ phaseIndex > 0
    /\ sessionTicks > 0
    /\ sessionRemainingMs = sessionDurationSeconds * 1000 - sessionTicks * 100

----------------------------------------------------------------------------
(* C28 *)

\* C28: applying settings never changes the running flag: across the close
\* of the settings screen a running session stays running and a paused one
\* stays paused, whatever record is applied.
C28_Theorem ==
    [][ lastOp' = "closeSettings" => isRunning' = isRunning ]_vars

\* a record saved from the settings screen is in use, its session has not
\* ticked, and the timer is paused
C28_Witness ==
    /\ lastOp = "closeSettings"
    /\ ~isRunning
    /\ ~showSessionComplete
    /\ settingsSnapshot = storage
    /\ storage.sessionDurationSeconds = <<15>>
    /\ sessionTicks = 0
    /\ sessionRemainingMs = 15000

----------------------------------------------------------------------------
(* C29 *)

----------------------------------------------------------------------------
(* C30 *)

\* C30: while the settings screen is shown and the session is running the
\* countdown goes on: a tick can fire, and a tick that fires ends the
\* session when 100 ms or less remain and otherwise takes 100 ms off
\* session-remaining and off phase-remaining (or enters the next phase),
\* as it does on the session screen.
C30_Theorem ==
    /\ [](showSettings /\ isRunning /\ sessionTicks < MaxTicks
            => ENABLED Tick)
    /\ [][ (TickStep /\ showSettings) =>
            /\ showSettings'
            /\ IF sessionRemainingMs <= 100
               THEN /\ sessionRemainingMs' = 0
                    /\ showSessionComplete'
                    /\ ~isRunning'
                    /\ UNCHANGED <<phaseIndex, phaseTimeLeftMs>>
               ELSE /\ sessionRemainingMs' = sessionRemainingMs - 100
                    /\ isRunning'
                    /\ IF phaseTimeLeftMs <= 100
                       THEN /\ phaseIndex' = (phaseIndex + 1) % 4
                            /\ phaseTimeLeftMs' =
                                  PhaseDuration(phaseIndex') * 1000
                       ELSE /\ phaseIndex' = phaseIndex
                            /\ phaseTimeLeftMs' = phaseTimeLeftMs - 100 ]_vars

\* a session has reached SessionComplete by a tick while the settings
\* screen was open
C30_Witness ==
    /\ showSettings
    /\ lastOp = "tick"
    /\ showSessionComplete
    /\ ~isRunning
    /\ sessionRemainingMs = 0

====
